---- MODULE Spec2Model ----
(***************************************************************************)
(* Model of the deduplication-and-staging subsystem of resume-role-player: *)
(* src/src/dedup.py (DuplicateResolver), src/src/staging.py (the staging   *)
(* lifecycle) and src/src/kb_ingest.py (merge_into_kb).                    *)
(*                                                                         *)
(* Text is modelled as Python sees it: a string is the sequence of its     *)
(* byte values (ASCII), so that sorting, length and character matching     *)
(* are computed and not assumed.                                           *)
(***************************************************************************)
EXTENDS Integers, Sequences, FiniteSets, TLC

(***************************************************************************)
(* Bounds of the model.                                                    *)
(***************************************************************************)
\* number of distinct skill names entries draw their list fields from
NumSkills == 2
\* latest year an entry's timestamp field takes (years start at BaseYear)
NumYears == 2
\* clock ticks the staging clock may reach
MaxTime == 1
\* clock ticks in one day
TicksPerDay == 1
\* binary digits after the point that the arithmetic on floats carries
FracBits == 61
\* staging records that may exist at once
MaxRecords == 1
\* calls of merge_into_kb in one behaviour of the sequential callers
MaxMerges == 1
\* calls of approve_staged_entry each concurrent caller makes
MaxCalls == 1
\* records staged when the concurrent callers start
MaxStaged == 2
\* entries in a list given to deduplicate_entries
MaxEntries == 3

(***************************************************************************)
(* Byte strings.                                                           *)
(***************************************************************************)
Range(s) == {s[i] : i \in DOMAIN s}

Min(S) == CHOOSE x \in S : \A y \in S : x <= y

Max(S) == CHOOSE x \in S : \A y \in S : x >= y

RECURSIVE Join(_, _)
\* sep.join(parts)
Join(sep, parts) ==
    IF parts = <<>> THEN <<>>
    ELSE IF Len(parts) = 1 THEN parts[1]
    ELSE parts[1] \o sep \o Join(sep, Tail(parts))

\* Python's str < str on ASCII text: lexicographic by code point
StrLess(a, b) ==
    \E n \in 0..Len(a) :
        /\ n <= Len(b)
        /\ \A i \in 1..n : a[i] = b[i]
        /\ \/ (n = Len(a) /\ n < Len(b))
           \/ (n < Len(a) /\ n < Len(b) /\ a[n + 1] < b[n + 1])

RECURSIVE SortedStrs(_)
\* sorted(S) for a set of strings
SortedStrs(S) ==
    IF S = {} THEN <<>>
    ELSE LET m == CHOOSE x \in S : \A y \in S \ {x} : StrLess(x, y)
         IN  <<m>> \o SortedStrs(S \ {m})

RECURSIVE SortedBytesOf(_, _)
SortedBytesOf(s, left) ==
    IF left = {} THEN <<>>
    ELSE LET m == Min(left)
             n == Cardinality({i \in DOMAIN s : s[i] = m})
         IN  [i \in 1..n |-> m] \o SortedBytesOf(s, left \ {m})

\* sorted(s.encode('utf-8')): the bytes of s in ascending order
SortedBytes(s) == SortedBytesOf(s, Range(s))

RECURSIVE Digits(_)
\* str(n) for a natural number
Digits(n) == IF n < 10 THEN <<48 + n>> ELSE Digits(n \div 10) \o <<48 + (n % 10)>>

\* datetime.isoformat() of a clock reading, the string the records hold:
\* its fields have a fixed number of digits
IsoFormat(t) == <<48 + ((t \div 10) % 10), 48 + (t % 10)>>

(***************************************************************************)
(* Entries: a Python dict is the sequence of its items in insertion order. *)
(* A value is a string, a list of strings, a datetime (January 1st of a    *)
(* year) or None; every value has the same record shape.                   *)
(***************************************************************************)
StrV(s) == [t |-> "str", s |-> s, l |-> <<>>, n |-> 0]

ListV(l) == [t |-> "list", s |-> <<>>, l |-> l, n |-> 0]

TimeV(y) == [t |-> "time", s |-> <<>>, l |-> <<>>, n |-> y]

NoneV == [t |-> "none", s |-> <<>>, l |-> <<>>, n |-> 0]

Item(k, v) == [k |-> k, v |-> v]

\* the bytes of a field name
KeyBytes(k) ==
    CASE k = "title"       -> <<116, 105, 116, 108, 101>>
      [] k = "description" -> <<100, 101, 115, 99, 114, 105, 112, 116, 105, 111, 110>>
      [] k = "summary"     -> <<115, 117, 109, 109, 97, 114, 121>>
      [] k = "role"        -> <<114, 111, 108, 101>>
      [] k = "company"     -> <<99, 111, 109, 112, 97, 110, 121>>
      [] k = "skills"      -> <<115, 107, 105, 108, 108, 115>>
      [] k = "timestamp"   -> <<116, 105, 109, 101, 115, 116, 97, 109, 112>>
      [] k = "year"        -> <<121, 101, 97, 114>>
      [] k = "name"        -> <<110, 97, 109, 101>>
      [] k = "files"          -> <<102, 105, 108, 101, 115>>
      [] k = "name_hint"      -> <<110, 97, 109, 101, 95, 104, 105, 110, 116>>
      [] k = "certifications" -> <<99, 101, 114, 116, 105, 102, 105, 99, 97, 116, 105, 111, 110, 115>>
      [] k = "experience"     -> <<101, 120, 112, 101, 114, 105, 101, 110, 99, 101>>
      [] k = "patents"        -> <<112, 97, 116, 101, 110, 116, 115>>
      [] k = "projects"       -> <<112, 114, 111, 106, 101, 99, 116, 115>>
      [] k = "content"        -> <<99, 111, 110, 116, 101, 110, 116>>
      [] k = "metadata"       -> <<109, 101, 116, 97, 100, 97, 116, 97>>
      [] k = "source"         -> <<115, 111, 117, 114, 99, 101>>
      [] k = "status"         -> <<115, 116, 97, 116, 117, 115>>

Keys(e) == {e[i].k : i \in DOMAIN e}

HasKey(e, k) == k \in Keys(e)

\* e[k]
Get(e, k) == e[CHOOSE i \in DOMAIN e : e[i].k = k].v

\* e[k] = v: an existing key keeps its place, a new key goes last
Put(e, k, v) ==
    IF HasKey(e, k)
    THEN [i \in DOMAIN e |-> IF e[i].k = k THEN Item(k, v) ELSE e[i]]
    ELSE Append(e, Item(k, v))

\* dict == dict: the same items, in any order
DictEq(e1, e2) == Range(e1) = Range(e2)

\* repr('...') of a string without quotes or escapes
ReprStr(s) == <<39>> \o s \o <<39>>

\* repr(v)
Repr(v) ==
    CASE v.t = "str"  -> ReprStr(v.s)
      [] v.t = "list" -> <<91>> \o Join(<<44, 32>>, [i \in DOMAIN v.l |-> ReprStr(v.l[i])]) \o <<93>>
      [] v.t = "time" -> \* datetime.datetime(Y, 1, 1, 0, 0)
            <<100, 97, 116, 101, 116, 105, 109, 101, 46, 100, 97, 116, 101, 116, 105, 109, 101, 40>>
            \o Digits(v.n) \o <<44, 32, 49, 44, 32, 49, 44, 32, 48, 44, 32, 48, 41>>
      [] v.t = "none" -> <<78, 111, 110, 101>>

\* str(v)
Str(v) ==
    CASE v.t = "str"  -> v.s
      [] v.t = "time" -> \* Y-01-01 00:00:00
            Digits(v.n) \o <<45, 48, 49, 45, 48, 49, 32, 48, 48, 58, 48, 48, 58, 48, 48>>
      [] OTHER -> Repr(v)

\* str(content.items()): dict_items([('k', v), ...])
ItemsStr(e) ==
    <<100, 105, 99, 116, 95, 105, 116, 101, 109, 115, 40, 91>>
    \o Join(<<44, 32>>,
            [i \in DOMAIN e |->
                <<40>> \o ReprStr(KeyBytes(e[i].k)) \o <<44, 32>> \o Repr(e[i].v) \o <<41>>])
    \o <<93, 41>>

(***************************************************************************)
(* DuplicateResolver (src/src/dedup.py).                                   *)
(***************************************************************************)
\* similarity_threshold = 0.85, as a fraction
ThresholdNum == 85
ThresholdDen == 100

\* get_content_hash with the sorting left out
UnsortedContentHash(content) == ItemsStr(content)

\* get_content_hash: the digest of str(sorted(bytes of str(content.items()))).
\* str() of a list of ints and md5 are taken as injective, so the digest is
\* represented by the sorted byte list it is computed from.
get_content_hash(content) == SortedBytes(ItemsStr(content))

RECURSIVE RunLen(_, _, _, _, _, _)
\* the length of the common run of a and b that ends at a[i], b[j] and stays
\* inside a[alo..], b[blo..] (j2len in SequenceMatcher.find_longest_match)
RunLen(a, b, i, j, alo, blo) ==
    IF a[i] # b[j] THEN 0
    ELSE IF i = alo \/ j = blo THEN 1
    ELSE 1 + RunLen(a, b, i - 1, j - 1, alo, blo)

\* SequenceMatcher.find_longest_match(alo, ahi, blo, bhi) without junk, on
\* 1-based positions alo..ahi and blo..bhi: <<i, j, k>>, the longest common
\* block, the one ending first in a and then first in b among the longest
FindLongestMatch(a, b, alo, ahi, blo, bhi) ==
    LET ends == {p \in (alo..ahi) \X (blo..bhi) : a[p[1]] = b[p[2]]}
    IN  IF ends = {} THEN <<alo, blo, 0>>
        ELSE LET k    == Max({RunLen(a, b, p[1], p[2], alo, blo) : p \in ends})
                 best == {p \in ends : RunLen(a, b, p[1], p[2], alo, blo) = k}
                 i    == Min({p[1] : p \in best})
                 j    == Min({p[2] : p \in {q \in best : q[1] = i}})
             IN  <<i - k + 1, j - k + 1, k>>

RECURSIVE MatchedChars(_, _, _, _, _, _)
\* the total size of SequenceMatcher.get_matching_blocks(): the longest block,
\* then the same to its left and to its right
MatchedChars(a, b, alo, ahi, blo, bhi) ==
    IF alo > ahi \/ blo > bhi THEN 0
    ELSE LET m == FindLongestMatch(a, b, alo, ahi, blo, bhi)
         IN  IF m[3] = 0 THEN 0
             ELSE m[3]
                  + MatchedChars(a, b, alo, m[1] - 1, blo, m[2] - 1)
                  + MatchedChars(a, b, m[1] + m[3], ahi, m[2] + m[3], bhi)

\* text_similarity: SequenceMatcher(None, text1, text2).ratio() = 2.0*M/T
\* (1.0 when both are empty), as the fraction <<numerator, denominator>>
text_similarity(text1, text2) ==
    IF Len(text1) + Len(text2) = 0 THEN <<1, 1>>
    ELSE <<2 * MatchedChars(text1, text2, 1, Len(text1), 1, Len(text2)),
           Len(text1) + Len(text2)>>

\* the fields is_duplicate_entry compares, in its order
CompareKeys == <<"title", "description", "summary", "role", "company">>

(***************************************************************************)
(* Python floats are IEEE 754 doubles: every operation gives the double   *)
(* nearest to the exact result, ties to the even one.  A float that is not *)
(* negative and below 8 is the sequence of its binary digits, IntBits of   *)
(* them before the point and FracBits after it, followed by one digit that *)
(* is 1 when something is left beyond them.                                *)
(***************************************************************************)
\* the significant binary digits of a double
Significand == 53

\* 8 = 2^3 is above every sum of the five similarities
IntBits == 3

Width == IntBits + FracBits

\* 0.0
FloatZero == [i \in 1..(Width + 1) |-> 0] @@ <<>>

RECURSIVE QuotientDigits(_, _, _)
\* the next n binary digits of r / den (r < den), then the digit for the rest
QuotientDigits(r, den, n) ==
    IF n = 0 THEN <<IF r # 0 THEN 1 ELSE 0>>
    ELSE <<(2 * r) \div den>> \o QuotientDigits((2 * r) % den, den, n - 1)

RECURSIVE SumDigits(_, _, _, _)
\* the digits i, i - 1, ..., 1 of a + b, carry coming from the digits
\* after i
SumDigits(a, b, i, carry) ==
    IF i = 0 THEN <<>>
    ELSE LET t == a[i] + b[i] + carry
         IN  <<t % 2>> \o SumDigits(a, b, i - 1, t \div 2)

\* s backwards
Reverse(s) == [i \in DOMAIN s |-> s[Len(s) + 1 - i]]

RECURSIVE DividedDigits(_, _, _, _)
\* the digits i..Width of a / m, r being the remainder of the digits before
\* i, then the digit for the rest
DividedDigits(a, m, i, r) ==
    IF i > Width THEN <<IF r # 0 THEN 1 ELSE 0>>
    ELSE LET t == 2 * r + a[i]
         IN  <<t \div m>> \o DividedDigits(a, m, i + 1, t % m)

\* x with one unit added at digit pos
Increment(x, pos) ==
    LET j == Max({i \in 1..pos : x[i] = 0})
    IN  [i \in DOMAIN x |-> IF i = j THEN 1 ELSE IF i > j /\ i <= pos THEN 0 ELSE x[i]] @@ <<>>

\* the double nearest to x: Significand digits from the first 1 on are
\* kept; the rest rounds up when it is above half a unit of the last digit
\* kept, or is half a unit and that digit is odd
RoundToDouble(x) ==
    LET ones == {i \in 1..Width : x[i] = 1}
    IN  IF ones = {} THEN FloatZero
        ELSE LET last == Min(ones) + Significand - 1
                 kept == [i \in DOMAIN x |-> IF i <= last /\ i <= Width THEN x[i] ELSE 0] @@ <<>>
             IN  IF last >= Width THEN kept
                 ELSE IF /\ x[last + 1] = 1
                         /\ \/ x[last] = 1
                            \/ \E i \in (last + 2)..(Width + 1) : x[i] = 1
                 THEN Increment(kept, last)
                 ELSE kept

\* float(p) / float(q) for natural numbers p < 8 * q
FloatDiv(p, q) == RoundToDouble(QuotientDigits(p, 8 * q, Width))

\* a + b; 0 + b is b itself
FloatAdd(a, b) ==
    IF a = FloatZero THEN b
    ELSE RoundToDouble(Append(Reverse(SumDigits(a, b, Width, 0)), 0))

\* a / m for an int m > 0; a / 1 is a itself
FloatDivInt(a, m) ==
    IF m = 1 THEN a
    ELSE RoundToDouble(DividedDigits(a, m, 1, 0))

\* a > b
FloatGreater(a, b) ==
    \E i \in 1..Width : a[i] > b[i] /\ \A j \in 1..(i - 1) : a[j] = b[j]

\* self.similarity_threshold: the float 0.85
Threshold == FloatDiv(ThresholdNum, ThresholdDen)

\* the float text_similarity returns: 2.0 * matches / length, or 1.0
Ratio(r) == FloatDiv(r[1], r[2])

RECURSIVE SimilarityScore(_, _, _, _)
\* similarity_score after the loop over the keys from position n on, score
\* being its value before: text_similarity is added for every compared
\* field present in both entries (0 + x is x)
SimilarityScore(new_entry, entry, n, score) ==
    IF n > Len(CompareKeys) THEN score
    ELSE LET key == CompareKeys[n]
         IN  IF HasKey(new_entry, key) /\ HasKey(entry, key)
             THEN SimilarityScore(new_entry, entry, n + 1,
                      FloatAdd(score,
                               Ratio(text_similarity(Str(Get(new_entry, key)),
                                                     Str(Get(entry, key))))))
             ELSE SimilarityScore(new_entry, entry, n + 1, score)

\* matches: the number of compared fields present in both entries
Matches(new_entry, entry) ==
    Cardinality({n \in DOMAIN CompareKeys :
                    HasKey(new_entry, CompareKeys[n]) /\ HasKey(entry, CompareKeys[n])})

\* the fuzzy test of is_duplicate_entry for one existing entry:
\* matches > 0 and similarity_score / matches > similarity_threshold
FuzzyMatch(new_entry, entry) ==
    LET m == Matches(new_entry, entry)
    IN  /\ m > 0
        /\ FloatGreater(FloatDivInt(SimilarityScore(new_entry, entry, 1, FloatZero), m),
                        Threshold)

\* the position in existing_entries of the entry is_duplicate_entry returns
\* (0 when it returns (False, {})): the first entry with the same hash, else
\* the first entry that matches fuzzily
DuplicateIndex(new_entry, existing_entries) ==
    LET new_hash == get_content_hash(new_entry)
        exact == {i \in DOMAIN existing_entries :
                     get_content_hash(existing_entries[i]) = new_hash}
        fuzzy == {i \in DOMAIN existing_entries : FuzzyMatch(new_entry, existing_entries[i])}
    IN  IF exact # {} THEN Min(exact)
        ELSE IF fuzzy # {} THEN Min(fuzzy)
        ELSE 0

\* is_duplicate_entry(new_entry, existing_entries)[0]
is_duplicate_entry(new_entry, existing_entries) ==
    DuplicateIndex(new_entry, existing_entries) # 0

\* entry.get('timestamp', datetime.min): the year, datetime.min being year 1
TimeOf(e) == IF HasKey(e, "timestamp") THEN Get(e, "timestamp").n ELSE 1

\* resolved.get(key, []) and resolved.get(key, "")
GetList(e, k) == IF HasKey(e, k) THEN Get(e, k).l ELSE <<>>

GetText(e, k) == IF HasKey(e, k) THEN Get(e, k).s ELSE <<>>

\* one turn of the loop of resolve_conflicts over new_entry.items()
MergeField(resolved, key, value) ==
    IF value.t = "list"
    THEN Put(resolved, key, ListV(SortedStrs(Range(GetList(resolved, key) \o value.l))))
    ELSE IF value.t = "str"
    THEN IF Len(value.s) > Len(GetText(resolved, key))
         THEN Put(resolved, key, value)
         ELSE resolved
    ELSE resolved

RECURSIVE MergeFields(_, _, _)
MergeFields(resolved, new_entry, n) ==
    IF n > Len(new_entry) THEN resolved
    ELSE MergeFields(MergeField(resolved, new_entry[n].k, new_entry[n].v), new_entry, n + 1)

\* resolve_conflicts(new_entry, existing_entry)
resolve_conflicts(new_entry, existing_entry) ==
    LET base == IF TimeOf(new_entry) > TimeOf(existing_entry)
                THEN new_entry ELSE existing_entry
    IN  MergeFields(base, new_entry, 1)

\* index() that always gives the first position
FirstIndex(entries, e) == 1

\* unique_entries.index(matching_entry): the first entry equal to it
IndexOf(entries, e) == Min({i \in DOMAIN entries : DictEq(entries[i], e)})

\* one turn of the loop of deduplicate_entries: unique_entries after entry
DedupEntry(unique_entries, entry) ==
    LET d == DuplicateIndex(entry, unique_entries)
    IN  IF d # 0
        THEN LET idx == IndexOf(unique_entries, unique_entries[d])
             IN  [unique_entries EXCEPT ![idx] = resolve_conflicts(entry, unique_entries[d])]
        ELSE Append(unique_entries, entry)

RECURSIVE DedupFrom(_, _, _)
\* the loop of deduplicate_entries from entry n on, unique_entries so far
DedupFrom(entries, n, unique_entries) ==
    IF n > Len(entries) THEN unique_entries
    ELSE DedupFrom(entries, n + 1, DedupEntry(unique_entries, entries[n]))

\* deduplicate_entries(entries)
deduplicate_entries(entries) == DedupFrom(entries, 1, <<>>)

(***************************************************************************)
(* The entries the resolver is applied to: a title, a skills list and a    *)
(* timestamp, each present or absent, as in src/tests/test_dedup.py.       *)
(***************************************************************************)
\* the first year of the timestamps (datetime(2020, 1, 1) in the tests)
BaseYear == 2020

\* "p", "j", "k", "g", "r": skill names
SkillNames == << <<112>>, <<106>>, <<107>>, <<103>>, <<114>> >>

Skills == {SkillNames[i] : i \in 1..NumSkills}

\* lists of at most two different skills
SkillLists ==
    {<<>>} \cup {<<x>> : x \in Skills}
           \cup {<<p[1], p[2]>> : p \in {q \in Skills \X Skills : q[1] # q[2]}}

\* "a", "ab", "ba"
Titles == {<<97>>, <<97, 98>>, <<98, 97>>}

Years == {BaseYear + i : i \in 0..(NumYears - 1)}

TitlePart == {<<>>} \cup {<<Item("title", StrV(x))>> : x \in Titles}

SkillsPart == {<<>>} \cup {<<Item("skills", ListV(l))>> : l \in SkillLists}

TimePart == {<<>>} \cup {<<Item("timestamp", TimeV(y))>> : y \in Years}

\* entries with their fields in the order title, skills, timestamp
Entries == {a \o b \o c : a \in TitlePart, b \in SkillsPart, c \in TimePart}

\* "aba", "bca", "aaaaaba", "aabaaab": texts whose matching blocks depend on
\* which of the two is the first argument of SequenceMatcher
Texts ==
    {<<97, 98, 97>>, <<98, 99, 97>>,
     <<97, 97, 97, 97, 97, 98, 97>>, <<97, 97, 98, 97, 97, 97, 98>>}

\* entries of a title alone
TextEntries == {<<Item("title", StrV(x))>> : x \in Texts}

\* entries whose title is None, as in test_edge_cases
NoneEntries == {<<Item("title", NoneV)>> \o b : b \in SkillsPart}

\* "aaaaa", "aaaaaa", "aaaaaaa": each is similar to the next above the
\* threshold, the first and the last are not
Runs == {[i \in 1..n |-> 97] : n \in 5..7}

RunEntries == {<<Item("title", StrV(x))>> : x \in Runs}

\* two entries whose titles are similar by 0.9 and whose descriptions by
\* 0.8: "aaaaaaaaaa"/"abcde" and "aaaaaaaaab"/"abcdx"
ThresholdEntries ==
    {<<Item("title", StrV([i \in 1..10 |-> 97])),
       Item("description", StrV(<<97, 98, 99, 100, 101>>))>>,
     <<Item("title", StrV([i \in 1..10 |-> IF i < 10 THEN 97 ELSE 98])),
       Item("description", StrV(<<97, 98, 99, 100, 120>>))>>}

\* the entries of the lists deduplicate_entries is given: those above and
\* the title "a" alone, with a skill and with a timestamp
FoldEntries ==
    RunEntries \cup ThresholdEntries
    \cup {<<Item("title", StrV(<<97>>))>>,
          <<Item("title", StrV(<<97>>)), Item("skills", ListV(<<SkillNames[1]>>))>>,
          <<Item("title", StrV(<<97>>)), Item("timestamp", TimeV(BaseYear))>>}

\* the lists of at most MaxEntries of them
EntryLists == UNION {[1..n -> FoldEntries] : n \in 0..MaxEntries}

\* the same items inserted in another order
Reorderings(e) ==
    {[i \in DOMAIN e |-> e[f[i]]] :
        f \in {g \in [DOMAIN e -> DOMAIN e] : \A i, j \in DOMAIN e : i # j => g[i] # g[j]}}

(***************************************************************************)
(* Content bundles, as ingest_files builds them: the four lists and the    *)
(* summary are always present; an item is a dict with a title and perhaps  *)
(* a description.                                                          *)
(***************************************************************************)
TitleOnly(t) == <<Item("title", StrV(t))>>

Described(t, d) == <<Item("title", StrV(t)), Item("description", StrV(d))>>

Bundle(e, p, pat, c, s) ==
    [experience |-> e, projects |-> p, patents |-> pat, certifications |-> c, summary |-> s]

AllBundles ==
    << Bundle(<<TitleOnly(<<97, 98>>)>>,
              <<TitleOnly(<<97, 98>>), TitleOnly(<<97, 98>>)>>,
              <<Described(<<98, 97>>, <<97>>)>>,
              <<TitleOnly(<<97>>)>>,
              <<97>>),
       Bundle(<<>>, <<Described(<<97, 98>>, <<97>>)>>, <<>>, <<>>, <<97, 98>>),
       \* the second bundle with the keys of its project in the other order
       Bundle(<<>>, << <<Item("description", StrV(<<97>>)), Item("title", StrV(<<97, 98>>))>> >>,
              <<>>, <<>>, <<97, 98>>) >>

BundleIds == DOMAIN AllBundles

\* the bundles the lifecycle calls are run on
Proposed == {b \in BundleIds : b <= 2}

\* source_info: {'files': ['f'], 'name_hint': 'n'}, and the same with its
\* keys in the other order
AllSources ==
    << <<Item("files", ListV(<< <<102>> >>)), Item("name_hint", StrV(<<110>>))>>,
       <<Item("name_hint", StrV(<<110>>)), Item("files", ListV(<< <<102>> >>))>> >>

SourceIds == DOMAIN AllSources

(***************************************************************************)
(* json.dumps(stage_entry, sort_keys=True), from which generate_stage_id   *)
(* derives the id.                                                         *)
(***************************************************************************)
\* a JSON string without escapes
JsonStr(s) == <<34>> \o s \o <<34>>

\* a string, a list of strings or None as JSON
JsonValue(v) ==
    CASE v.t = "str"  -> JsonStr(v.s)
      [] v.t = "list" -> <<91>> \o Join(<<44, 32>>, [i \in DOMAIN v.l |-> JsonStr(v.l[i])]) \o <<93>>
      [] v.t = "none" -> <<110, 117, 108, 108>>

\* "key": value
JsonMember(k, json) == JsonStr(KeyBytes(k)) \o <<58, 32>> \o json

\* {members} and [elements]
JsonObject(members) == <<123>> \o Join(<<44, 32>>, members) \o <<125>>

JsonArray(elements) == <<91>> \o Join(<<44, 32>>, elements) \o <<93>>

\* a dict dumped without sort_keys: its items in insertion order
JsonDictUnsorted(e) ==
    JsonObject([i \in DOMAIN e |-> JsonMember(e[i].k, JsonValue(e[i].v))])

\* a dict dumped with sort_keys=True: its items in the order of their keys
JsonDict(e) ==
    LET ks == SortedStrs({KeyBytes(k) : k \in Keys(e)})
        key(n) == CHOOSE k \in Keys(e) : KeyBytes(k) = ks[n]
    IN  JsonObject([n \in DOMAIN ks |-> JsonMember(key(n), JsonValue(Get(e, key(n))))])

\* a list of dicts
JsonDicts(l) == JsonArray([i \in DOMAIN l |-> JsonDict(l[i])])

\* the content bundle, its keys sorted
JsonBundle(c) ==
    JsonObject(<<JsonMember("certifications", JsonDicts(c.certifications)),
                 JsonMember("experience", JsonDicts(c.experience)),
                 JsonMember("patents", JsonDicts(c.patents)),
                 JsonMember("projects", JsonDicts(c.projects)),
                 JsonMember("summary", JsonStr(c.summary))>>)

\* json.dumps(stage_entry, sort_keys=True); the timestamp is the clock's
\* reading and the status is 'pending'
JsonStageEntry(content, source, timestamp) ==
    JsonObject(<<JsonMember("content", JsonBundle(content)),
                 JsonMember("metadata",
                     JsonObject(<<JsonMember("source", JsonDict(source)),
                                  JsonMember("status", JsonStr(<<112, 101, 110, 100, 105, 110, 103>>)),
                                  JsonMember("timestamp", JsonStr(IsoFormat(timestamp)))>>))>>)

(***************************************************************************)
(* merge_into_kb (src/src/kb_ingest.py).  The knowledge base is the four   *)
(* files cv.json, projects.json, patents.json and certifications.json.     *)
(***************************************************************************)
EmptyKb ==
    [cv |-> [exists |-> FALSE, hasName |-> FALSE, name |-> <<>>, experience |-> <<>>,
             hasSummary |-> FALSE, summary |-> <<>>],
     projects |-> [exists |-> FALSE, items |-> <<>>],
     patents |-> [exists |-> FALSE, items |-> <<>>],
     certifications |-> [exists |-> FALSE, items |-> <<>>]]

\* p.get(k, default) as a value
GetOr(e, k, default) == IF HasKey(e, k) THEN Get(e, k) ELSE default

\* the CV step: name, experience and summary, written when the bundle has any
MergeCv(cv, parsed, name_hint) ==
    IF parsed.summary # <<>> \/ parsed.experience # <<>>
    THEN [exists     |-> TRUE,
          hasName    |-> TRUE,
          name       |-> IF cv.hasName THEN cv.name ELSE name_hint,
          experience |-> cv.experience \o parsed.experience,
          hasSummary |-> cv.hasSummary \/ parsed.summary # <<>>,
          summary    |-> IF parsed.summary # <<>> THEN parsed.summary ELSE cv.summary]
    ELSE cv

\* the projects step with the file's data replaced by the bundle's projects
MergeProjectsReplacing(file, parsed) ==
    IF parsed.projects # <<>>
    THEN [exists |-> TRUE, items |-> parsed.projects]
    ELSE file

\* the projects step: every project appended as it is
MergeProjects(file, parsed) ==
    IF parsed.projects # <<>>
    THEN [exists |-> TRUE, items |-> file.items \o parsed.projects]
    ELSE file

\* a patent as it is stored: title, description and year
NormalPatent(p) ==
    <<Item("title", Get(p, "title")),
      Item("description", GetOr(p, "description", StrV(<<>>))),
      Item("year", GetOr(p, "year", NoneV))>>

\* str(p) of a dict: {'k': v, ...}
DictStr(e) ==
    <<123>> \o Join(<<44, 32>>,
                    [i \in DOMAIN e |->
                        ReprStr(KeyBytes(e[i].k)) \o <<58, 32>> \o Repr(e[i].v)])
            \o <<125>>

\* the patents step
MergePatents(file, parsed) ==
    IF parsed.patents # <<>>
    THEN [exists |-> TRUE,
          items  |-> file.items \o
                     [i \in DOMAIN parsed.patents |->
                         IF HasKey(parsed.patents[i], "title")
                         THEN NormalPatent(parsed.patents[i])
                         ELSE <<Item("title", StrV(DictStr(parsed.patents[i])))>>]]
    ELSE file

\* the certifications step: each stored as {'name': c.get('title')}
MergeCertifications(file, parsed) ==
    IF parsed.certifications # <<>>
    THEN [exists |-> TRUE,
          items  |-> file.items \o
                     [i \in DOMAIN parsed.certifications |->
                         <<Item("name", GetOr(parsed.certifications[i], "title", NoneV))>>]]
    ELSE file

\* the knowledge base after merge_into_kb(parsed, name_hint)
merge_into_kb(base, parsed, name_hint) ==
    [cv             |-> MergeCv(base.cv, parsed, name_hint),
     projects       |-> MergeProjects(base.projects, parsed),
     patents        |-> MergePatents(base.patents, parsed),
     certifications |-> MergeCertifications(base.certifications, parsed)]

\* the summary merge_into_kb returns
MergeSummary(parsed) ==
    [cv_added       |-> Len(parsed.experience),
     projects_added |-> Len(parsed.projects),
     patents_added  |-> Len(parsed.patents),
     certs_added    |-> Len(parsed.certifications)]

(***************************************************************************)
(* The staging area (src/src/staging.py): one file per staged id.          *)
(***************************************************************************)
VARIABLES
    staging,     \* STAGING_DIR: stage id -> the record in <id>.json
    kb,          \* KB_DIR: the four knowledge-base files
    now,         \* datetime.now(), in clock ticks
    ret,         \* the last call made and what it returned or raised
    mergeCount,  \* stage id -> calls of merge_into_kb made by approve for it
    merges,      \* calls of merge_into_kb made so far
    pc,          \* caller -> where it is in approve_staged_entry
    local,       \* caller -> the entry its get_staged_entry returned
    args,        \* the entries a DuplicateResolver method is applied to
    result       \* what that method returned

vars == <<staging, kb, now, ret, mergeCount, merges, pc, local, args, result>>

\* every serialisation a stage entry of the model has, in ascending order
Serials ==
    SortedStrs({JsonStageEntry(AllBundles[b], AllSources[s], t) :
                   b \in BundleIds, s \in SourceIds, t \in 0..MaxTime})

\* hashlib.sha256(content_str.encode()).hexdigest()[:12], taken as injective
\* on the serialisations: the digest is the serialisation's number
Sha256Hex12(content_str) == CHOOSE n \in DOMAIN Serials : Serials[n] = content_str

StageIds == DOMAIN Serials

\* the id of every stage entry of the model, tabulated once (@@ makes the
\* function an explicit table)
IdTable ==
    [p \in BundleIds \X SourceIds \X (0..MaxTime) |->
        Sha256Hex12(JsonStageEntry(AllBundles[p[1]], AllSources[p[2]], p[3]))] @@ <<>>

\* generate_stage_id of the stage entry made of bundle number content,
\* source_info number source and the timestamp
generate_stage_id(content, source, timestamp) == IdTable[<<content, source, timestamp>>]

\* no file for the id
NoEntry ==
    [present |-> FALSE, content |-> 0, source |-> 0, timestamp |-> 0, status |-> "none",
     approved_at |-> <<>>, rejected_at |-> <<>>, rejection_reason |-> <<>>]

\* the stage_entry stage_parsed_content writes (content is the bundle's number)
NewEntry(content, source, timestamp) ==
    [present |-> TRUE, content |-> content, source |-> source, timestamp |-> timestamp,
     status |-> "pending",
     approved_at |-> <<>>, rejected_at |-> <<>>, rejection_reason |-> <<>>]

\* get_staged_entry
get_staged_entry(stage_id) == staging[stage_id]

\* "if not entry" with no check at all
NeverMissing(entry) == FALSE

\* "if not entry": there is no staged entry with the id
Missing(entry) == ~entry.present

\* entry['content']
ContentOf(entry) ==
    IF entry.content \in BundleIds THEN AllBundles[entry.content]
    ELSE Bundle(<<>>, <<>>, <<>>, <<>>, <<>>)

\* the status check of reject_staged_entry left out
RejectNeverRefused(entry) == FALSE

\* the check approve_staged_entry makes before it changes anything
ApproveRefused(entry) == entry.status = "approved"

\* the check reject_staged_entry makes before it changes anything
RejectRefused(entry) == entry.status = "rejected"

\* the entry written back as it was read
UnapprovedEntry(entry, t) == entry

\* the entry approve_staged_entry writes back
ApprovedEntry(entry, t) == [entry EXCEPT !.status = "approved", !.approved_at = <<t>>]

\* the entry written back without the reason
RejectedWithoutReason(entry, t, reason) ==
    [entry EXCEPT !.status = "rejected", !.rejected_at = <<t>>]

\* the entry reject_staged_entry writes back
RejectedEntry(entry, t, reason) ==
    [entry EXCEPT !.status = "rejected", !.rejected_at = <<t>>, !.rejection_reason = <<reason>>]

\* entry['metadata'].get('approved_at') or entry['metadata'].get('rejected_at')
ProcessedAt(entry) ==
    IF entry.approved_at # <<>> THEN entry.approved_at ELSE entry.rejected_at

\* (now - processed_date).days
AgeDays(t, processed) == (t - processed) \div TicksPerDay

\* whether cleanup_old_entries unlinks the entry's file
CleanupRemoves(entry, t, max_age_days) ==
    /\ entry.present
    /\ entry.status # "pending"
    /\ ProcessedAt(entry) # <<>>
    /\ AgeDays(t, ProcessedAt(entry)[1]) > max_age_days

\* preview_merge_changes: what it lists for each knowledge-base file
PreviewChanges(content) ==
    [cv             |-> IF content.experience # <<>> \/ content.summary # <<>>
                        THEN content.experience \o
                             (IF content.summary # <<>>
                              THEN <<<<Item("summary", StrV(content.summary))>>>>
                              ELSE <<>>)
                        ELSE <<>>,
     projects       |-> content.projects,
     patents        |-> content.patents,
     certifications |-> content.certifications]

NoId == 0

\* the record of a call: op, the outcome ("ok" or the error raised), the
\* count cleanup_old_entries returned or the length of the list
\* list_staged_entries returned, the id stage_parsed_content returned and
\* the list list_staged_entries returned
Ret(op, outcome, count) ==
    [op |-> op, outcome |-> outcome, count |-> count, id |-> NoId, list |-> <<>>]

RetId(op, id) == [op |-> op, outcome |-> "ok", count |-> 0, id |-> id, list |-> <<>>]

RetList(op, list) ==
    [op |-> op, outcome |-> "ok", count |-> Len(list), id |-> NoId, list |-> list]

Callers == {1, 2}

\* where a caller is: at "idle", or in approve_staged_entry(id) at "got"
\* (entry read), "written" (status saved, about to load knowledge-base file
\* number file), "loaded" (that file read) or "opened" (that file opened
\* for writing); the outcome of its last call and the number of calls it
\* has made
At(at, id, outcome, calls, file) ==
    [at |-> at, id |-> id, outcome |-> outcome, calls |-> calls, file |-> file]

IdleCallers == [c \in Callers |-> At("idle", NoId, "none", 0, 0)]

\* no knowledge-base file held by a caller
NoFile == [exists |-> FALSE, items |-> <<>>]

\* what a caller holds: the entry it read and the file it loaded
Local(entry, loaded) == [entry |-> entry, loaded |-> loaded]

NoLocals == [c \in Callers |-> Local(NoEntry, NoFile)]

NoResult ==
    [op |-> "none", entry |-> <<>>, h1 |-> <<>>, h2 |-> <<>>, dup |-> <<>>, sim |-> <<>>,
     n |-> 0, unique |-> <<>>, idx |-> 0]

ResolverIdle == args = <<>> /\ result = NoResult

CallersIdle == pc = IdleCallers /\ local = NoLocals

EmptyStaging ==
    /\ staging = [id \in StageIds |-> NoEntry]
    /\ kb = EmptyKb
    /\ now = 0
    /\ ret = Ret("none", "ok", 0)
    /\ mergeCount = [id \in StageIds |-> 0]
    /\ merges = 0

Init == EmptyStaging /\ CallersIdle /\ ResolverIdle

\* time passes
Tick ==
    /\ now < MaxTime
    /\ now' = now + 1
    /\ UNCHANGED <<staging, kb, ret, mergeCount, merges, pc, local, args, result>>

\* stage_parsed_content(parsed, source_info): the file <id>.json is written,
\* over the one that is there if the id is in use
Propose(b, s) ==
    LET id == generate_stage_id(b, s, now)
    IN  /\ \/ staging[id].present
           \/ Cardinality({i \in StageIds : staging[i].present}) < MaxRecords
        /\ staging' = [staging EXCEPT ![id] = NewEntry(b, s, now)]
        /\ ret' = RetId("propose", id)
        /\ UNCHANGED <<kb, now, mergeCount, merges, pc, local, args, result>>

\* get_staged_entry(stage_id) called by a client: None or the entry
GetEntry(id) ==
    /\ ret' = Ret("get", IF Missing(get_staged_entry(id)) THEN "None" ELSE "ok", 0)
    /\ UNCHANGED <<staging, kb, now, mergeCount, merges, pc, local, args, result>>

\* the dict list_staged_entries makes of the record in <id>.json
Summary(id) ==
    [id |-> id, timestamp |-> staging[id].timestamp, source |-> staging[id].source,
     status |-> staging[id].status]

\* sorted by timestamp without reverse=True
OldestFirst(l) ==
    \A i, j \in DOMAIN l :
        i < j => ~StrLess(IsoFormat(l[j].timestamp), IsoFormat(l[i].timestamp))

\* sorted(entries, key=lambda x: x['timestamp'], reverse=True): no entry
\* comes before one with a greater timestamp string
NewestFirst(l) ==
    \A i, j \in DOMAIN l :
        i < j => ~StrLess(IsoFormat(l[i].timestamp), IsoFormat(l[j].timestamp))

\* the lists list_staged_entries(status) may return: the records with the
\* status, or all of them when status is None, sorted; entries with the
\* same timestamp stay in the order glob() gave them, which is any order
Listings(status) ==
    LET ids == {id \in StageIds :
                   staging[id].present /\ status \in {"None", staging[id].status}}
    IN  {[i \in DOMAIN f |-> Summary(f[i])] :
            f \in {g \in [1..Cardinality(ids) -> ids] :
                      /\ \A i, j \in DOMAIN g : i # j => g[i] # g[j]
                      /\ NewestFirst([i \in DOMAIN g |-> Summary(g[i])])}}

\* list_staged_entries(status)
List(status) ==
    /\ \E l \in Listings(status) : ret' = RetList("list", l)
    /\ UNCHANGED <<staging, kb, now, mergeCount, merges, pc, local, args, result>>

\* a preview that merges the content it lists
PreviewAndMerge(id) ==
    /\ ret' = Ret("preview",
                  IF Missing(get_staged_entry(id)) THEN "NotFound" ELSE "ok", 0)
    /\ kb' = merge_into_kb(kb, ContentOf(get_staged_entry(id)), <<>>)
    /\ UNCHANGED <<staging, now, mergeCount, merges, pc, local, args, result>>

\* preview_merge_changes(stage_id)
Preview(id) ==
    /\ ret' = Ret("preview",
                  IF Missing(get_staged_entry(id)) THEN "NotFound" ELSE "ok", 0)
    /\ UNCHANGED <<staging, kb, now, mergeCount, merges, pc, local, args, result>>

\* approve_staged_entry(stage_id), start to end
Approve(id) ==
    LET entry == get_staged_entry(id)
    IN  IF Missing(entry)
        THEN /\ ret' = Ret("approve", "NotFound", 0)
             /\ UNCHANGED <<staging, kb, now, mergeCount, merges, pc, local, args, result>>
        ELSE IF ApproveRefused(entry)
        THEN /\ ret' = Ret("approve", "InvalidState", 0)
             /\ UNCHANGED <<staging, kb, now, mergeCount, merges, pc, local, args, result>>
        ELSE /\ merges < MaxMerges
             /\ staging' = [staging EXCEPT ![id] = ApprovedEntry(entry, now)]
             /\ kb' = merge_into_kb(kb, ContentOf(entry), <<>>)
             /\ mergeCount' = [mergeCount EXCEPT ![id] = @ + 1]
             /\ merges' = merges + 1
             /\ ret' = Ret("approve", "ok", 0)
             /\ UNCHANGED <<now, pc, local, args, result>>

\* reject_staged_entry(stage_id, reason)
Reject(id, reason) ==
    LET entry == get_staged_entry(id)
    IN  IF Missing(entry)
        THEN /\ ret' = Ret("reject", "NotFound", 0)
             /\ UNCHANGED <<staging, kb, now, mergeCount, merges, pc, local, args, result>>
        ELSE IF RejectRefused(entry)
        THEN /\ ret' = Ret("reject", "InvalidState", 0)
             /\ UNCHANGED <<staging, kb, now, mergeCount, merges, pc, local, args, result>>
        ELSE /\ staging' = [staging EXCEPT ![id] = RejectedEntry(entry, now, reason)]
             /\ ret' = Ret("reject", "ok", 0)
             /\ UNCHANGED <<kb, now, mergeCount, merges, pc, local, args, result>>

\* cleanup_old_entries(max_age_days)
Cleanup(max_age_days) ==
    LET gone == {id \in StageIds : CleanupRemoves(staging[id], now, max_age_days)}
    IN  /\ staging' = [id \in StageIds |-> IF id \in gone THEN NoEntry ELSE staging[id]]
        /\ ret' = Ret("cleanup", "ok", Cardinality(gone))
        /\ UNCHANGED <<kb, now, mergeCount, merges, pc, local, args, result>>

\* ingest_files(..., use_staging=False): merge_into_kb(parsed, name_hint)
DirectMerge(b, name_hint) ==
    /\ merges < MaxMerges
    /\ kb' = merge_into_kb(kb, AllBundles[b], name_hint)
    /\ merges' = merges + 1
    /\ ret' = Ret("merge", "ok", 0)
    /\ UNCHANGED <<staging, now, mergeCount, pc, local, args, result>>

\* "r": a rejection reason
Reasons == {<<114>>}

\* the max_age_days cleanup_old_entries is called with
MaxAges == {0, 1}

NameHints == {<<>>, <<110>>}

\* the status filters of list_staged_entries
Filters == {"None", "pending", "approved", "rejected"}

Next ==
    \/ Tick
    \/ \E b \in Proposed : Propose(b, 1)
    \/ \E id \in StageIds : Preview(id)
    \/ \E id \in StageIds : Approve(id)
    \/ \E id \in StageIds, reason \in Reasons : Reject(id, reason)
    \/ \E d \in MaxAges : Cleanup(d)
    \/ \E b \in Proposed, h \in NameHints : DirectMerge(b, h)

Spec == Init /\ [][Next]_vars

(***************************************************************************)
(* The same calls on a knowledge base that earlier merges have filled: its *)
(* files are readable and hold the entries of one bundle.                  *)
(***************************************************************************)
MergedKbs == {merge_into_kb(EmptyKb, AllBundles[b], <<110>>) : b \in Proposed}

GrowInit ==
    /\ staging = [id \in StageIds |-> NoEntry]
    /\ kb \in MergedKbs
    /\ now = 0
    /\ ret = Ret("none", "ok", 0)
    /\ mergeCount = [id \in StageIds |-> 0]
    /\ merges = 0
    /\ CallersIdle
    /\ ResolverIdle

GrowSpec == GrowInit /\ [][Next]_vars

(***************************************************************************)
(* Proposals of every bundle from every source, and the read calls.        *)
(***************************************************************************)
StageNext ==
    \/ Tick
    \/ \E b \in BundleIds, s \in SourceIds : Propose(b, s)
    \/ \E id \in StageIds : GetEntry(id)
    \/ \E status \in Filters : List(status)
    \/ \E id \in StageIds : Preview(id)

StageSpec == Init /\ [][StageNext]_vars

(***************************************************************************)
(* The read calls get, list and preview among the calls that change the    *)
(* records: propose, approve and reject.                                   *)
(***************************************************************************)
ReadNext ==
    \/ Tick
    \/ \E b \in Proposed : Propose(b, 1)
    \/ \E id \in StageIds : GetEntry(id)
    \/ \E status \in Filters : List(status)
    \/ \E id \in StageIds : Preview(id)
    \/ \E id \in StageIds : Approve(id)
    \/ \E id \in StageIds, reason \in Reasons : Reject(id, reason)

ReadSpec == Init /\ [][ReadNext]_vars

(***************************************************************************)
(* Records staged at different times and their review: approve, reject and *)
(* list on a staging area that holds up to MaxStaged records.              *)
(***************************************************************************)
\* the proposals staged before the review starts
ReviewSets ==
    {S \in SUBSET (Proposed \X {1} \X (0..MaxTime)) : S # {} /\ Cardinality(S) <= MaxStaged}

\* the staging area holding the proposals of S
Staged(S) ==
    [id \in StageIds |->
        IF \E p \in S : generate_stage_id(p[1], p[2], p[3]) = id
        THEN LET p == CHOOSE q \in S : generate_stage_id(q[1], q[2], q[3]) = id
             IN  NewEntry(p[1], p[2], p[3])
        ELSE NoEntry]

ReviewInit ==
    /\ staging \in {Staged(S) : S \in ReviewSets}
    /\ kb = EmptyKb
    /\ now = MaxTime
    /\ ret = Ret("none", "ok", 0)
    /\ mergeCount = [id \in StageIds |-> 0]
    /\ merges = 0
    /\ CallersIdle
    /\ ResolverIdle

ReviewNext ==
    \/ \E status \in Filters : List(status)
    \/ \E id \in StageIds : Approve(id)
    \/ \E id \in StageIds, reason \in Reasons : Reject(id, reason)

ReviewSpec == ReviewInit /\ [][ReviewNext]_vars

(***************************************************************************)
(* Two callers running approve_staged_entry at once: the steps of one call *)
(* are the read of the staged file, its write, and for each of the four    *)
(* knowledge-base files the load, the open for writing and the dump        *)
(* merge_into_kb makes.  Nothing in staging.py or kb_ingest.py locks a     *)
(* file between them.                                                      *)
(***************************************************************************)
\* the files in the order merge_into_kb handles them
Files == <<"cv", "projects", "patents", "certifications">>

\* whether merge_into_kb writes the file: the bundle has something for it
Writes(f, parsed) ==
    IF f = "cv" THEN parsed.summary # <<>> \/ parsed.experience # <<>>
    ELSE parsed[f] # <<>>

\* the file's data after the step of merge_into_kb for it
MergeFile(f, data, parsed, name_hint) ==
    CASE f = "cv"             -> MergeCv(data, parsed, name_hint)
      [] f = "projects"       -> MergeProjects(data, parsed)
      [] f = "patents"        -> MergePatents(data, parsed)
      [] f = "certifications" -> MergeCertifications(data, parsed)

\* line 141: entry = get_staged_entry(stage_id)
ApproveGet(c, id) ==
    /\ pc[c].at = "idle"
    /\ pc[c].calls < MaxCalls
    /\ local' = [local EXCEPT ![c] = Local(get_staged_entry(id), NoFile)]
    /\ pc' = [pc EXCEPT ![c] = At("got", id, "none", pc[c].calls + 1, 0)]
    /\ UNCHANGED <<staging, kb, now, ret, mergeCount, merges, args, result>>

\* lines 142-155: the checks on the entry read, then the status is set on it
\* and it is written back
ApproveWrite(c) ==
    /\ pc[c].at = "got"
    /\ IF Missing(local[c].entry)
       THEN /\ pc' = [pc EXCEPT ![c] = At("idle", pc[c].id, "NotFound", pc[c].calls, 0)]
            /\ UNCHANGED <<staging, local>>
       ELSE IF ApproveRefused(local[c].entry)
       THEN /\ pc' = [pc EXCEPT ![c] = At("idle", pc[c].id, "InvalidState", pc[c].calls, 0)]
            /\ UNCHANGED <<staging, local>>
       ELSE /\ local' = [local EXCEPT ![c] = Local(ApprovedEntry(local[c].entry, now), NoFile)]
            /\ staging' = [staging EXCEPT ![pc[c].id] = ApprovedEntry(local[c].entry, now)]
            /\ pc' = [pc EXCEPT ![c] = At("written", pc[c].id, "none", pc[c].calls, 1)]
    /\ UNCHANGED <<kb, now, ret, mergeCount, merges, args, result>>

\* merge_into_kb: the file is read (an absent file reads as empty)
MergeLoad(c) ==
    /\ pc[c].at = "written"
    /\ local' = [local EXCEPT ![c] = Local(local[c].entry, kb[Files[pc[c].file]])]
    /\ pc' = [pc EXCEPT ![c] = At("loaded", pc[c].id, "none", pc[c].calls, pc[c].file)]
    /\ UNCHANGED <<staging, kb, now, ret, mergeCount, merges, args, result>>

\* a file just opened with open(path, 'w'): it exists and holds nothing; a
\* file that is not JSON is read as the default data (lines 401-403)
Truncated(f) ==
    IF f = "cv"
    THEN [exists |-> TRUE, hasName |-> FALSE, name |-> <<>>, experience |-> <<>>,
          hasSummary |-> FALSE, summary |-> <<>>]
    ELSE [exists |-> TRUE, items |-> <<>>]

\* merge_into_kb: open(path, 'w') on a file the bundle has entries for
MergeOpen(c) ==
    LET f == Files[pc[c].file]
    IN  /\ pc[c].at = "loaded"
        /\ Writes(f, ContentOf(local[c].entry))
        /\ kb' = [kb EXCEPT ![f] = Truncated(f)]
        /\ pc' = [pc EXCEPT ![c] = At("opened", pc[c].id, "none", pc[c].calls, pc[c].file)]
        /\ UNCHANGED <<staging, now, ret, mergeCount, merges, local, args, result>>

\* merge_into_kb: json.dump of the data read with the bundle's entries
\* appended into the file opened, or nothing when the bundle has none for
\* the file; after the last file approve_staged_entry returns the summary
\* (lines 161-165)
MergeStore(c) ==
    LET f      == Files[pc[c].file]
        parsed == ContentOf(local[c].entry)
    IN  /\ \/ pc[c].at = "opened"
           \/ pc[c].at = "loaded" /\ ~Writes(f, parsed)
        /\ kb' = IF Writes(f, parsed)
                 THEN [kb EXCEPT ![f] = MergeFile(f, local[c].loaded, parsed, <<>>)]
                 ELSE kb
        /\ local' = [local EXCEPT ![c] = Local(local[c].entry, NoFile)]
        /\ IF pc[c].file < Len(Files)
           THEN /\ pc' = [pc EXCEPT ![c] =
                              At("written", pc[c].id, "none", pc[c].calls, pc[c].file + 1)]
                /\ UNCHANGED <<mergeCount, merges>>
           ELSE /\ pc' = [pc EXCEPT ![c] = At("idle", pc[c].id, "ok", pc[c].calls, 0)]
                /\ mergeCount' = [mergeCount EXCEPT ![pc[c].id] = @ + 1]
                /\ merges' = merges + 1
        /\ UNCHANGED <<staging, now, ret, args, result>>

\* merge_into_kb raises (a file cannot be opened or written) or the process
\* dies: the error leaves approve_staged_entry, which handles nothing
MergeFail(c) ==
    /\ pc[c].at \in {"written", "loaded", "opened"}
    /\ local' = [local EXCEPT ![c] = Local(local[c].entry, NoFile)]
    /\ pc' = [pc EXCEPT ![c] = At("idle", pc[c].id, "MergeError", pc[c].calls, 0)]
    /\ UNCHANGED <<staging, kb, now, ret, mergeCount, merges, args, result>>

\* the proposals staged at time 0 when the callers start
StagedSets ==
    {S \in SUBSET (Proposed \X {1} \X {0}) : S # {} /\ Cardinality(S) <= MaxStaged}

ConcInit ==
    /\ staging \in {Staged(S) : S \in StagedSets}
    /\ kb = EmptyKb
    /\ now = 0
    /\ ret = Ret("none", "ok", 0)
    /\ mergeCount = [id \in StageIds |-> 0]
    /\ merges = 0
    /\ CallersIdle
    /\ ResolverIdle

\* the calls overlap within one reading of the clock
ConcNext ==
    \/ \E c \in Callers, id \in StageIds : ApproveGet(c, id)
    \/ \E c \in Callers : ApproveWrite(c)
    \/ \E c \in Callers : MergeLoad(c)
    \/ \E c \in Callers : MergeOpen(c)
    \/ \E c \in Callers : MergeStore(c)
    \/ \E c \in Callers : MergeFail(c)

ConcSpec == ConcInit /\ [][ConcNext]_vars

(***************************************************************************)
(* The methods of DuplicateResolver applied to entries: args[1] is the     *)
(* new (incoming) entry, args[2] the existing one.                         *)
(***************************************************************************)
DedupInit ==
    /\ EmptyStaging
    /\ CallersIdle
    /\ \/ \E e1 \in Entries : \E e2 \in Entries \cup Reorderings(e1) : args = <<e1, e2>>
       \/ \E e1, e2 \in TextEntries \cup NoneEntries : args = <<e1, e2>>
       \/ \E e1 \in NoneEntries, e2 \in Entries : args = <<e1, e2>>
    /\ result = NoResult

\* get_content_hash of both entries
HashBoth ==
    /\ result.op = "none"
    /\ result' = [NoResult EXCEPT !.op = "hash",
                                  !.h1 = get_content_hash(args[1]),
                                  !.h2 = get_content_hash(args[2])]
    /\ UNCHANGED <<staging, kb, now, ret, mergeCount, merges, pc, local, args>>

\* resolve_conflicts(args[1], args[2])
Resolve ==
    /\ result.op = "none"
    /\ result' = [NoResult EXCEPT !.op = "resolve",
                                  !.entry = resolve_conflicts(args[1], args[2])]
    /\ UNCHANGED <<staging, kb, now, ret, mergeCount, merges, pc, local, args>>

\* is_duplicate_entry(args[1], []), is_duplicate_entry(args[1], [args[2]]) and
\* is_duplicate_entry(args[2], [args[1]])
IsDuplicate ==
    /\ result.op = "none"
    /\ result' = [NoResult EXCEPT !.op = "dup",
                                  !.dup = <<is_duplicate_entry(args[1], <<>>),
                                            is_duplicate_entry(args[1], <<args[2]>>),
                                            is_duplicate_entry(args[2], <<args[1]>>)>>]
    /\ UNCHANGED <<staging, kb, now, ret, mergeCount, merges, pc, local, args>>

\* text_similarity of the two titles, in both orders of the arguments
Similarity ==
    /\ result.op = "none"
    /\ HasKey(args[1], "title") /\ HasKey(args[2], "title")
    /\ LET text1 == Str(Get(args[1], "title"))
           text2 == Str(Get(args[2], "title"))
       IN  result' = [NoResult EXCEPT !.op = "sim",
                                      !.sim = <<text_similarity(text1, text2),
                                                text_similarity(text2, text1)>>]
    /\ UNCHANGED <<staging, kb, now, ret, mergeCount, merges, pc, local, args>>

DedupNext == HashBoth \/ Resolve \/ IsDuplicate \/ Similarity

DedupSpec == DedupInit /\ [][DedupNext]_vars

(***************************************************************************)
(* The methods of DuplicateResolver applied to a list of entries:          *)
(* deduplicate_entries(args), one turn of its loop at a time, and          *)
(* is_duplicate_entry(args[1], args[2:]).                                  *)
(***************************************************************************)
FoldInit ==
    /\ EmptyStaging
    /\ CallersIdle
    /\ args \in EntryLists
    /\ result = NoResult

\* lines 89-96: the turn of the loop for the next entry, result.n entries
\* being done
DedupTurn ==
    /\ result.op \in {"none", "turn"}
    /\ result.n < Len(args)
    /\ result' = [NoResult EXCEPT !.op = "turn",
                                  !.n = result.n + 1,
                                  !.unique = DedupEntry(result.unique, args[result.n + 1])]
    /\ UNCHANGED <<staging, kb, now, ret, mergeCount, merges, pc, local, args>>

\* line 98: return unique_entries, the loop being over
DedupReturn ==
    /\ result.op \in {"none", "turn"}
    /\ result.n = Len(args)
    /\ result' = [result EXCEPT !.op = "dedup"]
    /\ UNCHANGED <<staging, kb, now, ret, mergeCount, merges, pc, local, args>>

\* is_duplicate_entry(args[1], args[2:]): the position of the entry returned
FindDuplicate ==
    /\ result.op = "none"
    /\ args # <<>>
    /\ result' = [NoResult EXCEPT !.op = "match",
                                  !.idx = DuplicateIndex(args[1], Tail(args))]
    /\ UNCHANGED <<staging, kb, now, ret, mergeCount, merges, pc, local, args>>

FoldNext == DedupTurn \/ DedupReturn \/ FindDuplicate

FoldSpec == FoldInit /\ [][FoldNext]_vars

(***************************************************************************)
(* Properties.                                                             *)
(***************************************************************************)
Terminal == {"approved", "rejected"}

ApproveOrReject(id) == Approve(id) \/ \E reason \in Reasons : Reject(id, reason)

\* C1: the status is a one-way state machine: once a record is approved or
\* rejected, every later approve or reject on its id fails and leaves the
\* status as it is (no approved -> rejected, no rejected -> approved).
C1_TerminalStatusIsFinal ==
    [][\A id \in StageIds :
          (staging[id].present /\ staging[id].status \in Terminal /\ ApproveOrReject(id))
          => (ret'.outcome # "ok" /\ staging'[id].status = staging[id].status)]_vars

\* C2: a record that has been rejected is never merged: no later step adds
\* to the merges made of its content.
C2_RejectedNeverMerged ==
    [][\A id \in StageIds :
          (staging[id].present /\ staging[id].rejected_at # <<>>)
          => mergeCount'[id] = mergeCount[id]]_vars

\* C3: when approve calls on the same id are interleaved, the record's
\* content is merged at most once and at most one of the calls succeeds.
C3_AtMostOneMerge ==
    \A id \in StageIds :
        /\ mergeCount[id] <= 1
        /\ Cardinality({c \in Callers : pc[c].id = id /\ pc[c].outcome = "ok"}) <= 1

\* C4: approve on an approved record and reject on a rejected record fail
\* with InvalidState and change neither the staging area nor the
\* knowledge base.
C4_RepeatFailsWithoutChange ==
    [][\A id \in StageIds :
          (\/ (staging[id].status = "approved" /\ Approve(id))
           \/ (staging[id].status = "rejected" /\ \E reason \in Reasons : Reject(id, reason)))
          => (ret'.outcome = "InvalidState" /\ staging' = staging /\ kb' = kb)]_vars

\* C4 witness: an approve has just failed with InvalidState on a record
\* that is approved.
C4_Witness ==
    /\ ret.op = "approve"
    /\ ret.outcome = "InvalidState"
    /\ \E id \in StageIds : staging[id].status = "approved"

\* C5: approve, preview and reject of an id without a record fail with
\* NotFound, create no record and change neither the staging area nor the
\* knowledge base.
C5_UnknownIdFailsWithoutChange ==
    [][\A id \in StageIds :
          (/\ ~staging[id].present
           /\ (Approve(id) \/ Preview(id) \/ \E reason \in Reasons : Reject(id, reason)))
          => (ret'.outcome = "NotFound" /\ staging' = staging /\ kb' = kb)]_vars

\* C5 witness: a reject has just failed with NotFound while another record
\* is staged.
C5_Witness ==
    /\ ret.op = "reject"
    /\ ret.outcome = "NotFound"
    /\ \E id \in StageIds : staging[id].present

\* the time of the transition into the status the entry has
TransitionAt(entry) ==
    IF entry.status = "approved" THEN entry.approved_at ELSE entry.rejected_at

\* C6: cleanup(max_age) deletes no pending record, deletes an approved or
\* rejected record only if its terminal transition is more than max_age
\* days old, and returns the number of records it deleted.
C6_CleanupRemovesOnlyOldTerminal ==
    [][\A d \in MaxAges :
          Cleanup(d) =>
            /\ \A id \in StageIds :
                  (staging[id].present /\ ~staging'[id].present)
                  => /\ staging[id].status \in Terminal
                     /\ TransitionAt(staging[id]) # <<>>
                     /\ now - TransitionAt(staging[id])[1] > d * TicksPerDay
            /\ ret'.count =
                  Cardinality({id \in StageIds : staging[id].present /\ ~staging'[id].present})]_vars

\* the four canonical collections
Collections ==
    <<kb.cv.experience, kb.projects.items, kb.patents.items, kb.certifications.items>>

\* C7: no canonical collection holds two entries that is_duplicate_entry
\* classifies as duplicates of each other.
C7_NoDuplicatesInKb ==
    \A n \in DOMAIN Collections :
        \A i, j \in DOMAIN Collections[n] :
            i # j => ~is_duplicate_entry(Collections[n][i], <<Collections[n][j]>>)

\* C8: resolve_conflicts(incoming, existing) gives every list field of
\* incoming the sorted union of incoming's and existing's lists, whichever
\* entry is newer.
C8_ListsAreUnion ==
    result.op = "resolve" =>
        \A i \in DOMAIN args[1] :
            args[1][i].v.t = "list" =>
                /\ HasKey(result.entry, args[1][i].k)
                /\ Get(result.entry, args[1][i].k).l =
                      SortedStrs(Range(args[1][i].v.l) \cup Range(GetList(args[2], args[1][i].k)))

\* C9: resolve_conflicts(incoming, existing) keeps, for every string field
\* of both entries, the longer value, and existing's on a tie, whichever
\* entry is newer.
C9_LongerTextWins ==
    result.op = "resolve" =>
        \A i \in DOMAIN args[1] :
            (args[1][i].v.t = "str" /\ HasKey(args[2], args[1][i].k)) =>
                Get(result.entry, args[1][i].k).s =
                    IF Len(args[1][i].v.s) > Len(GetText(args[2], args[1][i].k))
                    THEN args[1][i].v.s
                    ELSE GetText(args[2], args[1][i].k)

\* C10: two entries with the same items inserted in different orders have
\* the same content hash.
C10_HashIgnoresFieldOrder ==
    (result.op = "hash" /\ DictEq(args[1], args[2])) => result.h1 = result.h2

\* C10 witness: the hashes of an entry of three fields and of a reordering
\* of it have been computed.
C10_Witness ==
    /\ result.op = "hash"
    /\ DictEq(args[1], args[2])
    /\ args[1] # args[2]
    /\ Len(args[1]) = 3

\* the comparison fields both entries have
SharedKeys(e1, e2) ==
    {CompareKeys[n] : n \in DOMAIN CompareKeys} \cap Keys(e1) \cap Keys(e2)

\* C11: two entries that differ in a field value or in their key set have
\* different content hashes, so the exact-match path fires only for
\* structurally equal entries.
C11_HashDistinguishesEntries ==
    (result.op = "hash" /\ ~DictEq(args[1], args[2])) => result.h1 # result.h2

\* C12: is_duplicate_entry returns false on an empty list of existing
\* entries, and false for two entries that are not structurally equal and
\* share no comparison field.
C12_NoSharedFieldNoDuplicate ==
    result.op = "dup" =>
        /\ ~result.dup[1]
        /\ (~DictEq(args[1], args[2]) /\ SharedKeys(args[1], args[2]) = {})
               => ~result.dup[2]

\* C13: two entries with different hashes whose shared comparison fields
\* are all None on at least one side are not classified as duplicates.
C13_NoneFieldsNotCompared ==
    (/\ result.op = "dup"
     /\ get_content_hash(args[1]) # get_content_hash(args[2])
     /\ SharedKeys(args[1], args[2]) # {}
     /\ \A k \in SharedKeys(args[1], args[2]) :
            Get(args[1], k).t = "none" \/ Get(args[2], k).t = "none")
    => ~result.dup[2]

\* C17: text_similarity(a, b) = text_similarity(b, a), and is_duplicate_entry
\* of x against [y] agrees with is_duplicate_entry of y against [x].
C17_SimilarityIsSymmetric ==
    /\ result.op = "sim" => result.sim[1] = result.sim[2]
    /\ result.op = "dup" => result.dup[2] = result.dup[3]

\* the lists of a content bundle
Lists == {"experience", "projects", "patents", "certifications"}

\* two bundles with the same entries and summary, whatever the key order
BundleEq(c1, c2) ==
    /\ c1.summary = c2.summary
    /\ \A f \in Lists :
          /\ Len(c1[f]) = Len(c2[f])
          /\ \A i \in DOMAIN c1[f] : DictEq(c1[f][i], c2[f][i])

\* two proposals with the same content and source_info, whatever the key order
SameProposal(b1, s1, b2, s2) ==
    /\ BundleEq(AllBundles[b1], AllBundles[b2])
    /\ DictEq(AllSources[s1], AllSources[s2])

\* C14: the id stage_parsed_content returns is the same for every proposal
\* with the same content, source_info and timestamp, whatever the key order
\* of the mappings, and a proposal equal to a staged one made at the same
\* time goes to that record's id and adds no record.
C14_StageIdIsDeterministic ==
    [][\A b \in BundleIds, s \in SourceIds :
          Propose(b, s) =>
            /\ \A b2 \in BundleIds, s2 \in SourceIds :
                  SameProposal(b, s, b2, s2) => generate_stage_id(b2, s2, now) = ret'.id
            /\ \A id \in StageIds :
                  (/\ staging[id].present
                   /\ staging[id].timestamp = now
                   /\ SameProposal(b, s, staging[id].content, staging[id].source))
                  => /\ id = ret'.id
                     /\ {i \in StageIds : staging'[i].present}
                           = {i \in StageIds : staging[i].present}]_vars

\* C14 witness: the proposal staged last has the keys of its project and
\* of its source_info in the other order.
C14_Witness ==
    /\ ret.op = "propose"
    /\ staging[ret.id].present
    /\ staging[ret.id].content = 3
    /\ staging[ret.id].source = 2

\* C15: the entries preview lists for a pending record are the entries a
\* successful approve adds to each canonical collection, and as many as the
\* merge summary counts.
C15_PreviewAgreesWithMerge ==
    [][\A id \in StageIds :
          (/\ staging[id].present
           /\ staging[id].status = "pending"
           /\ Approve(id)
           /\ ret'.outcome = "ok")
          => LET content == ContentOf(staging[id])
                 changes == PreviewChanges(content)
                 summary == MergeSummary(content)
             IN  /\ kb'.cv.experience = kb.cv.experience \o changes.cv
                 /\ kb'.projects.items = kb.projects.items \o changes.projects
                 /\ kb'.patents.items = kb.patents.items \o changes.patents
                 /\ kb'.certifications.items = kb.certifications.items \o changes.certifications
                 /\ summary.cv_added = Len(changes.cv)
                 /\ summary.projects_added = Len(changes.projects)
                 /\ summary.patents_added = Len(changes.patents)
                 /\ summary.certs_added = Len(changes.certifications)]_vars

\* C16: get, list and preview, whether they succeed or fail, change no
\* staging record and no canonical collection.
C16_ReadsArePure ==
    [][(\/ \E id \in StageIds : GetEntry(id) \/ Preview(id)
        \/ \E status \in Filters : List(status))
       => (staging' = staging /\ kb' = kb)]_vars

\* C16 witness: a preview has succeeded on a record while the knowledge
\* base holds merged entries.
C16_Witness ==
    /\ ret.op = "preview"
    /\ ret.outcome = "ok"
    /\ kb # EmptyKb
    /\ \E id \in StageIds : staging[id].present

\* C18: when two callers have approved two different staged records, in any
\* interleaving and without a merge error, both calls have succeeded and
\* every canonical collection holds the entries of both bundles.
C18_DifferentIdsIndependent ==
    \A c1, c2 \in Callers :
        (/\ c1 # c2
         /\ pc[c1].at = "idle" /\ pc[c2].at = "idle"
         /\ pc[c1].calls > 0 /\ pc[c2].calls > 0
         /\ pc[c1].id # pc[c2].id
         /\ staging[pc[c1].id].present /\ staging[pc[c2].id].present
         /\ pc[c1].outcome # "MergeError" /\ pc[c2].outcome # "MergeError")
        => LET b1 == ContentOf(staging[pc[c1].id])
               b2 == ContentOf(staging[pc[c2].id])
           IN  /\ pc[c1].outcome = "ok" /\ pc[c2].outcome = "ok"
               /\ Len(kb.cv.experience) >= Len(b1.experience) + Len(b2.experience)
               /\ Len(kb.projects.items) >= Len(b1.projects) + Len(b2.projects)
               /\ Len(kb.patents.items) >= Len(b1.patents) + Len(b2.patents)
               /\ Len(kb.certifications.items)
                     >= Len(b1.certifications) + Len(b2.certifications)

\* C19: merging a bundle again right after it was merged changes no
\* canonical collection.
C19_MergeTwiceIsMergeOnce ==
    [][\A b \in BundleIds, h \in NameHints :
          DirectMerge(b, h) => merge_into_kb(kb', AllBundles[b], h) = kb']_vars

\* no caller is inside merge_into_kb
NoMergeRunning == \A c \in Callers : pc[c].at \in {"idle", "got"}

\* the record is approved and stamped whenever its merge is running
ApprovedBeforeMerge ==
    \A c \in Callers :
        pc[c].at \in {"written", "loaded", "opened"}
        => /\ staging[pc[c].id].status = "approved"
           /\ staging[pc[c].id].approved_at # <<>>

\* an approve that read an approved record fails and changes nothing
LaterApproveFails ==
    \A c \in Callers :
        (ApproveWrite(c) /\ local[c].entry.status = "approved")
        => (pc'[c].outcome = "InvalidState" /\ staging' = staging /\ kb' = kb)

\* C20 as stated: the record is approved and stamped before the merge
\* starts; a merge that fails leaves the record approved and its content
\* unmerged (while no merge has completed and none is running, the
\* knowledge base holds nothing); a later approve fails with InvalidState.
C20_UnmergedAfterFailure ==
    /\ [](ApprovedBeforeMerge)
    /\ []((merges = 0 /\ NoMergeRunning) => kb = EmptyKb)
    /\ [][LaterApproveFails]_vars

\* C20 amended: the record is approved and stamped before the merge starts;
\* a merge that fails leaves the record approved and the merge not
\* completed, the files it had written keeping the entries; a later approve
\* fails with InvalidState and merges nothing.
C20_ApprovedBeforeMerge ==
    /\ [](ApprovedBeforeMerge)
    /\ [][\A c \in Callers :
              MergeFail(c) => (staging' = staging /\ kb' = kb /\ mergeCount' = mergeCount)]_vars
    /\ [][LaterApproveFails]_vars

\* C20 witness: one caller's merge has failed, the record is approved and
\* not counted as merged, and the other caller's approve of it has failed
\* with InvalidState.
C20_Witness ==
    \E c1, c2 \in Callers :
        /\ pc[c1].at = "idle" /\ pc[c1].outcome = "MergeError"
        /\ pc[c2].at = "idle" /\ pc[c2].outcome = "InvalidState"
        /\ pc[c1].id = pc[c2].id
        /\ staging[pc[c1].id].status = "approved"
        /\ mergeCount[pc[c1].id] = 0

\* the file holds what merge_into_kb adds to it from the bundle
Updated(f, parsed) ==
    IF f = "cv"
    THEN /\ Len(kb.cv.experience) >= Len(parsed.experience)
         /\ parsed.summary # <<>> => kb.cv.summary = parsed.summary
    ELSE Len(kb[f].items) >= Len(parsed[f])

\* C21: a failure while one knowledge-base file is updated does not abort
\* the approval, and the other files the bundle has entries for are still
\* updated: after a call made alone, at most one of them lacks the bundle's
\* entries.
C21_CollectionsFailIndependently ==
    \A c \in Callers :
        (/\ pc[c].at = "idle"
         /\ pc[c].calls > 0
         /\ staging[pc[c].id].status = "approved"
         /\ \A o \in Callers \ {c} : pc[o].calls = 0)
        => LET parsed == ContentOf(staging[pc[c].id])
           IN  /\ pc[c].outcome # "MergeError"
               /\ Cardinality({n \in DOMAIN Files :
                                  Writes(Files[n], parsed) /\ ~Updated(Files[n], parsed)}) <= 1

\* C22: whenever no write of a knowledge-base file is under way (the writer
\* has finished or has died), no file is cut short: each holds its old or
\* its new data in full.
C22_WritesAreAllOrNothing ==
    (\A c \in Callers : pc[c].at # "opened")
    => \A n \in DOMAIN Files : kb[Files[n]] # Truncated(Files[n])

\* s is the beginning of t
IsPrefix(s, t) == Len(s) <= Len(t) /\ \A i \in DOMAIN s : t[i] = s[i]

\* the numbers of entries the step has added to the four collections
Growth ==
    [n \in DOMAIN Collections |-> Len(Collections'[n]) - Len(Collections[n])]

\* the merge summary as the numbers added to the four collections
Counts(summary) ==
    <<summary.cv_added, summary.projects_added, summary.patents_added, summary.certs_added>>

\* C23: the canonical store only grows: every step of propose, approve,
\* reject, cleanup and merge leaves the store as it is or leaves each
\* collection's entries in place, new ones coming after them, and a merge
\* appends to each collection as many entries as its summary counts.
C23_StoreOnlyGrows ==
    [][/\ \/ UNCHANGED kb
          \/ \A n \in DOMAIN Collections : IsPrefix(Collections[n], Collections'[n])
       /\ \A id \in StageIds :
             (ret'.op = "approve" /\ ret'.outcome = "ok" /\ Approve(id))
             => Growth = Counts(MergeSummary(ContentOf(staging[id])))
       /\ \A b \in Proposed, h \in NameHints :
             (ret'.op = "merge" /\ DirectMerge(b, h))
             => Growth = Counts(MergeSummary(AllBundles[b]))]_vars

\* C23 witness: an approve has merged a bundle's project into a projects
\* file that held entries, and the record has since been rejected.
C23_Witness ==
    /\ ret.op = "reject"
    /\ ret.outcome = "ok"
    /\ merges = 1
    /\ \E id \in StageIds : mergeCount[id] = 1
    /\ Len(kb.projects.items) > 2

\* the entry resolve_conflicts starts from: the newer of the two, existing
\* on a tie
BaseOf(new_entry, existing_entry) ==
    IF TimeOf(new_entry) > TimeOf(existing_entry) THEN new_entry ELSE existing_entry

\* C24: resolve_conflicts(incoming, existing) loses no field: a field of
\* incoming that the base lacks is in the result with incoming's value, of
\* whatever type, and a field only the base has is in the result unchanged.
C24_NoFieldLost ==
    result.op = "resolve" =>
        LET base == BaseOf(args[1], args[2])
        IN  /\ \A i \in DOMAIN args[1] :
                  ~HasKey(base, args[1][i].k)
                  => /\ HasKey(result.entry, args[1][i].k)
                     /\ Get(result.entry, args[1][i].k) = args[1][i].v
            /\ \A i \in DOMAIN base :
                  ~HasKey(args[1], base[i].k)
                  => /\ HasKey(result.entry, base[i].k)
                     /\ Get(result.entry, base[i].k) = base[i].v

\* a step that makes the next turn of the loop appends the entry, or puts
\* resolve_conflicts of it and of the matched entry in the matched entry's
\* place (d # 0 is is_duplicate_entry(entry, unique_entries))
TurnAppendsOrReplaces ==
    (result'.op = "turn" /\ result'.n = result.n + 1) =>
        LET unique_entries == result.unique
            entry == args[result.n + 1]
            d == DuplicateIndex(entry, unique_entries)
        IN  IF d # 0
            THEN /\ Len(result'.unique) = Len(unique_entries)
                 /\ result'.unique[d] = resolve_conflicts(entry, unique_entries[d])
                 /\ \A i \in DOMAIN unique_entries \ {d} :
                       result'.unique[i] = unique_entries[i]
            ELSE result'.unique = Append(unique_entries, entry)

\* C25: deduplicate_entries is an in-order fold: each entry is appended to
\* the accumulator when it is no duplicate of it, or replaces the matched
\* entry at its position by resolve_conflicts(entry, matched); the output is
\* never longer than the input and deduplicate_entries([]) is [].
C25_DedupIsInOrderFold ==
    /\ [][TurnAppendsOrReplaces]_vars
    /\ [](result.op \in {"turn", "dedup"} => Len(result.unique) <= result.n)
    /\ [](result.op = "dedup"
            => /\ result.unique = deduplicate_entries(args)
               /\ Len(result.unique) <= Len(args)
               /\ args = <<>> => result.unique = <<>>)

\* C25 witness: deduplicate_entries has returned two entries for three, the
\* second of them made by resolve_conflicts in the second place.
C25_Witness ==
    /\ result.op = "dedup"
    /\ Len(args) = 3
    /\ Len(result.unique) = 2
    /\ result.unique[1] = args[1]
    /\ result.unique[2] \notin Range(args)

RECURSIVE ExactSum(_, _, _)
\* the sum of the similarities of the comparison fields from position n on
\* that both entries have, as the exact fraction <<numerator, denominator>>
ExactSum(new_entry, entry, n) ==
    IF n > Len(CompareKeys) THEN <<0, 1>>
    ELSE LET key  == CompareKeys[n]
             rest == ExactSum(new_entry, entry, n + 1)
         IN  IF HasKey(new_entry, key) /\ HasKey(entry, key)
             THEN LET r == text_similarity(Str(Get(new_entry, key)), Str(Get(entry, key)))
                  IN  <<r[1] * rest[2] + rest[1] * r[2], r[2] * rest[2]>>
             ELSE rest

\* the mean similarity over the shared comparison fields is strictly
\* greater than the threshold
MeanAboveThreshold(new_entry, entry) ==
    LET sum == ExactSum(new_entry, entry, 1)
        m   == Matches(new_entry, entry)
    IN  m > 0 /\ sum[1] * ThresholdDen > ThresholdNum * m * sum[2]

\* C28: is_duplicate_entry returns the first existing entry with the
\* candidate's hash if there is one, even after an entry that matches
\* fuzzily; otherwise the earliest entry whose mean similarity over the
\* shared comparison fields is strictly greater than the threshold, a mean
\* equal to the threshold being no duplicate.
C28_MatchSelectionOrder ==
    result.op = "match" =>
        LET new_entry == args[1]
            existing  == Tail(args)
            exact == {i \in DOMAIN existing :
                         get_content_hash(existing[i]) = get_content_hash(new_entry)}
            fuzzy == {i \in DOMAIN existing : MeanAboveThreshold(new_entry, existing[i])}
        IN  result.idx = IF exact # {} THEN Min(exact)
                         ELSE IF fuzzy # {} THEN Min(fuzzy)
                         ELSE 0

\* C30: the output of deduplicate_entries is free of duplicates: no entry of
\* it is a duplicate of another one, and deduplicate_entries of the output
\* is as long as the output.
C30_OutputIsDuplicateFree ==
    result.op = "dedup" =>
        /\ \A i, j \in DOMAIN result.unique :
              i # j => ~is_duplicate_entry(result.unique[i], <<result.unique[j]>>)
        /\ Len(deduplicate_entries(result.unique)) = Len(result.unique)

\* C26: a propose that derives the id of an existing record leaves the
\* record's status and transition fields as they are: an approved or
\* rejected record never returns to pending.
C26_ProposeKeepsReviewStatus ==
    [][\A b \in Proposed :
          (Propose(b, 1) /\ staging[ret'.id].present)
          => /\ staging'[ret'.id].status = staging[ret'.id].status
             /\ staging'[ret'.id].approved_at = staging[ret'.id].approved_at
             /\ staging'[ret'.id].rejected_at = staging[ret'.id].rejected_at
             /\ staging'[ret'.id].rejection_reason = staging[ret'.id].rejection_reason]_vars

\* the records list_staged_entries(status) is to report
Selected(status) ==
    {id \in StageIds : staging[id].present /\ status \in {"None", staging[id].status}}

\* C27: list(status_filter) returns exactly one summary for each record
\* whose status is the filter's (for each record when there is no filter),
\* newest creation timestamp first, each with the record's current status.
C27_ListIsFilteredNewestFirst ==
    [][\A status \in Filters :
          List(status) =>
            LET l == ret'.list
            IN  /\ {l[i].id : i \in DOMAIN l} = Selected(status)
                /\ Len(l) = Cardinality(Selected(status))
                /\ \A i, j \in DOMAIN l : i < j => l[i].timestamp >= l[j].timestamp
                /\ \A i \in DOMAIN l :
                      /\ l[i].status = staging[l[i].id].status
                      /\ l[i].timestamp = staging[l[i].id].timestamp]_vars

\* C27 witness: a list without a filter has returned two records, the newer
\* one first, one of them rejected and the other not.
C27_Witness ==
    /\ ret.op = "list"
    /\ Len(ret.list) = 2
    /\ ret.list[1].timestamp > ret.list[2].timestamp
    /\ ret.list[2].status = "rejected"
    /\ ret.list[1].status # "rejected"

\* C29: a successful approve or reject changes only the status fields of
\* the record it names: the record is still there with the content, the
\* source_info and the creation timestamp it had, every other record is
\* unchanged, and reject stores the reason it was given.
C29_ReviewChangesOnlyStatus ==
    [][\A id \in StageIds, reason \in Reasons :
          ((Approve(id) \/ Reject(id, reason)) /\ ret'.outcome = "ok")
          => /\ staging'[id].present
             /\ staging'[id].content = staging[id].content
             /\ staging'[id].source = staging[id].source
             /\ staging'[id].timestamp = staging[id].timestamp
             /\ \A other \in StageIds \ {id} : staging'[other] = staging[other]
             /\ Reject(id, reason)
                   => /\ staging'[id].status = "rejected"
                      /\ staging'[id].rejection_reason = <<reason>>]_vars

\* C29 witness: of two staged records one has been approved and the other
\* has just been rejected.
C29_Witness ==
    /\ ret.op = "reject"
    /\ ret.outcome = "ok"
    /\ \E id1, id2 \in StageIds :
          /\ staging[id1].status = "approved"
          /\ staging[id2].status = "rejected"
          /\ staging[id2].rejection_reason # <<>>
          /\ staging[id2].approved_at = <<>>
====
